---- MODULE Spec2Model ----
(***************************************************************************)
(* Fold-state synchronisation engine of obsidian-sync-folds (src/main.ts). *)
(* The earlier revision src/unnamed/part_000 is modelled beside it: `rev`  *)
(* says which of the two is running.                                       *)
(*                                                                         *)
(* The plugin mirrors the host's per-document fold state, kept in          *)
(* localStorage under "<appId>-note-fold-<path>", into one JSON file.      *)
(* JavaScript is single threaded: a handler runs to its next `await`, so   *)
(* every action below is one synchronous stretch of a handler: from its    *)
(* call, or from the completion of the I/O it awaits, to its next await    *)
(* or its return.  An operation suspended at an await is a record of       *)
(* `tasks`.                                                                *)
(*                                                                         *)
(* Time is abstracted by the order of the actions: a pending timer fires   *)
(* (TimerFires) at the moment its 500 ms have passed, so a change that     *)
(* happens while the timer armed by the previous change is still pending   *)
(* arrives less than 500 ms after that change, and a change that happens   *)
(* after it has fired arrives later than that.                             *)
(***************************************************************************)
EXTENDS Integers, Sequences, FiniteSets, TLC

(***************************************************************************)
(* Bounds of the model.                                                    *)
(***************************************************************************)
MaxEvents == 3   \* events from outside: store writes and deletes made by
                 \* the host, user commands, unload, I/O requests that fail
MaxTasks  == 3   \* operations suspended at an await at the same time

(***************************************************************************)
(* Data: documents, keys, JSON values and JSON texts.                      *)
(***************************************************************************)
Paths == {"a.md", "b.md"}

\* Every document of Paths is a file of the vault (getAbstractFileByPath).
VaultFiles == Paths

\* A key of localStorage: `${appId}-note-fold-${path}`, or any other key.
FoldKey(p) == [ns |-> "fold", name |-> p]
OtherKey   == [ns |-> "other", name |-> "theme"]
Keys       == {FoldKey(p) : p \in Paths} \cup {OtherKey}

\* key.startsWith(foldPrefix) and key.replace(foldPrefix, "")
StartsWithFoldPrefix(key) == key.ns = "fold"
PathOfKey(key)            == key.name

\* FoldedProperties values (the two descriptors of the spec's example).
Desc1 == [folds |-> <<[from |-> 1, to |-> 3]>>, lines |-> 10]
Desc2 == [folds |-> <<>>, lines |-> 5]
Descs == {Desc1, Desc2}

\* FoldStateData: a record from some paths to descriptors.
Records == UNION {[S -> Descs] : S \in SUBSET Paths}
EmptyRecord == [p \in {} |-> Desc1]

\* A text is JSON (the value it denotes and whether it is written compact:
\* ws = 0, or with extra whitespace: ws = 1), or it is not JSON at all.
JsonText(v, ws) == [kind |-> "json", val |-> v, ws |-> ws]
Garbage         == [kind |-> "garbage"]
Null            == [kind |-> "null"]     \* value of removeItem / no key
NoFile          == [kind |-> "nofile"]   \* the durable file is absent

\* JSON.parse: the value of a JSON text; it throws on any other text.
ParseThrows(text) == text.kind # "json"
JSONparse(text)   == text.val
\* JSON.stringify: always the compact text.
JSONstringify(v) == JsonText(v, 0)

\* A JSON value that is no FoldedProperties: the object {"note": "x"}.
Unshaped == [note |-> "x"]

\* The values written under a fold key from outside the plugin: a
\* descriptor's text, a text that is no JSON, and a JSON text of another
\* shape.
StoreValues == {JSONstringify(Desc2), Garbage, JSONstringify(Unshaped)}

(***************************************************************************)
(* State.                                                                  *)
(***************************************************************************)
VARIABLES
  rev,            \* the revision of the plugin that runs: "main" is
                  \* src/main.ts, "part_000" is src/unnamed/part_000
  phase,          \* "constructed", "loading" (onload awaits its export),
                  \* "loaded" (file-open handler registered), "unloaded"
  enableSync,     \* settings.enableSync
  intercepted,    \* localStorage.setItem/removeItem are the plugin's wrappers
  originalSetItem, \* this.originalSetItem and this.originalRemoveItem: the
                  \* functions they hold, "none" for undefined
  store,          \* localStorage: key -> text, Null when the key is absent
  file,           \* content of the durable file, NoFile when absent
  debounceTimer,  \* this.debounceTimer: a timer handle, NullTimer for null
  timers,         \* the timers that window.setTimeout holds pending
  nextTimer,      \* the handle the next window.setTimeout returns
  tasks,          \* operations suspended at an await
  views,          \* path -> fold state shown by the markdown view of the
                  \* document, Closed when no view shows it
  active,         \* path of the active view, NoPath when there is none
  nEvents,        \* the events from outside so far
  \* history, read by the properties only
  lastArmed,      \* handle of the timer armed by the most recent change
  lastChange,     \* that change: its path, who made it, and the events from
                  \* outside that had happened before it
  burstWrites,    \* burstWrites[b]: durable writes made by flushes of the
                  \* b-th burst of changes
  last            \* summary of the operation that returned most recently

vars == <<rev, phase, enableSync, intercepted, originalSetItem, store, file,
          debounceTimer, timers, nextTimer, tasks, views, active, nEvents,
          lastArmed, lastChange, burstWrites, last>>

\* The two revisions of the plugin in the repository.  They share the
\* interceptor, the scheduler, export and upsert; "part_000" has no import,
\* no commands and no settings tab, and handles active-leaf-change (with a
\* delay of 100 ms) where "main" handles file-open.
Revisions == {"main", "part_000"}

NullTimer == 0
NoPath    == "none"
Closed    == [kind |-> "closed"]
NoFolds   == [kind |-> "nofolds"]

\* A task: the operation `op`, called by `caller`, suspended at the await
\* `pc` ("exists", "read", "write" of the adapter, "save" of saveData).
\* path, value: the arguments; buf: the content handed to adapter.write;
\* timer: the handle of the timer whose callback awaits the operation.
\* History fields: cause (who made the store write that armed the timer),
\* burst (the burst of that change), read (the file content the operation
\* read), enabledAtCall (settings.enableSync when the operation was called).
Task(op, pc, caller, path, value, buf, timer, cause, burst, read, en) ==
  [op |-> op, pc |-> pc, caller |-> caller, path |-> path, value |-> value,
   buf |-> buf, timer |-> timer, cause |-> cause, burst |-> burst,
   read |-> read, enabledAtCall |-> en]

\* The summary of a returned operation.  n flips at every return, so that
\* two equal returns in a row are still two.
Last(op, caller, outcome, notices) ==
  [n |-> 1 - last.n, op |-> op, caller |-> caller, outcome |-> outcome,
   notices |-> notices]

\* The part of the state that a synchronous store write can change.
\* threw: a store write of the stretch has thrown.
World == [store |-> store, dt |-> debounceTimer, timers |-> timers,
          next |-> nextTimer, lastArmed |-> lastArmed, bursts |-> burstWrites,
          threw |-> FALSE, changed |-> lastChange, events |-> nEvents]

Commit(w) ==
  /\ store' = w.store
  /\ debounceTimer' = w.dt
  /\ timers' = w.timers
  /\ nextTimer' = w.next
  /\ lastArmed' = w.lastArmed
  /\ lastChange' = w.changed
  /\ burstWrites' = w.bursts

(***************************************************************************)
(* Sync Scheduler.                                                         *)
(***************************************************************************)
\* window.clearTimeout(handle): the timer with that handle, when it is still
\* pending, is dropped; a handle of a timer that has fired drops nothing.
ClearTimeout(pending, handle) == {t \in pending : t.id # handle}

\* debouncedSyncFile(filePath, value): cancel the timer whose handle the
\* field holds, arm a new one and keep its handle.
DebouncedSyncFile(w, path, value, cause) ==
  LET cleared == IF w.dt # NullTimer THEN ClearTimeout(w.timers, w.dt)
                 ELSE w.timers
      \* history: the change continues the burst of the previous change
      \* exactly when the timer that change armed has not fired yet
      same   == \E t \in w.timers : t.id = w.lastArmed
      bursts == IF same THEN w.bursts ELSE Append(w.bursts, 0)
      new    == [id |-> w.next, path |-> path, value |-> value,
                 cause |-> cause, burst |-> Len(bursts)]
  IN [w EXCEPT !.timers = cleared \cup {new}, !.dt = w.next,
               !.next = w.next + 1, !.lastArmed = w.next, !.bursts = bursts,
               !.changed = [path |-> path, cause |-> cause,
                            events |-> w.events]]

(***************************************************************************)
(* Store Interceptor.                                                      *)
(***************************************************************************)
\* The functions localStorage.setItem and this.originalSetItem can be: the
\* store's own operation ("native"), or a wrapper made by
\* interceptLocalStorage ("wrapper"; all of them are alike: each calls
\* whatever this.originalSetItem holds at the time of the call).
\* interceptLocalStorage(): the field takes the current function (bound),
\* localStorage takes a new wrapper.  Both fields and both operations go
\* together, so one pair stands for setItem and removeItem.
InterceptLocalStorage(cur) ==
  [intercepted |-> TRUE,
   original    |-> IF cur.intercepted THEN "wrapper" ELSE "native"]

\* restoreLocalStorage(): localStorage takes back what the field holds, when
\* it holds something.
RestoreLocalStorage(cur) ==
  IF cur.original = "none" THEN cur
  ELSE [cur EXCEPT !.intercepted = (cur.original = "wrapper")]

Interception == [intercepted |-> intercepted, original |-> originalSetItem]

\* A call of the wrapper when the field holds a wrapper never reaches the
\* store: the wrapper calls the field, which calls the field, until the
\* stack is exhausted and a RangeError is thrown.
WrapperRecurses == intercepted /\ originalSetItem = "wrapper"

\* localStorage.setItem(key, value) as the callers see it: the wrapper when
\* it is installed (the original operation first, then the notification of
\* a fold-prefixed key), the original operation otherwise.
SetItem(w, key, value, cause) ==
  LET w1 == [w EXCEPT !.store[key] = value]
  IN IF w.threw THEN w
     ELSE IF WrapperRecurses THEN [w EXCEPT !.threw = TRUE]
     ELSE IF intercepted /\ StartsWithFoldPrefix(key)
     THEN DebouncedSyncFile(w1, PathOfKey(key), value, cause)
     ELSE w1

\* localStorage.removeItem(key), likewise.
RemoveItem(w, key, cause) ==
  LET w1 == [w EXCEPT !.store[key] = Null]
  IN IF w.threw THEN w
     ELSE IF WrapperRecurses THEN [w EXCEPT !.threw = TRUE]
     ELSE IF intercepted /\ StartsWithFoldPrefix(key)
     THEN DebouncedSyncFile(w1, PathOfKey(key), Null, cause)
     ELSE w1

(***************************************************************************)
(* Fold Record Codec and the pure parts of the File Synchronizer.          *)
(***************************************************************************)
Unread == [kind |-> "unread"]

\* A faulty upsert: the update starts from an empty record, so the other
\* entries go.
UpsertRecord_Mut(R, path, value) ==
  IF value = Null
  THEN EmptyRecord
  ELSE [q \in {path} |-> JSONparse(value)]

\* upsertFoldStateForFile, the update of the record read:
\* delete foldStates[filePath], or foldStates[filePath] = JSON.parse(value).
UpsertRecord(R, path, value) ==
  IF value = Null
  THEN [q \in DOMAIN R \ {path} |-> R[q]]
  ELSE [q \in DOMAIN R \cup {path} |->
          IF q = path THEN JSONparse(value) ELSE R[q]]

\* A faulty upsert: a content that does not decode is taken for an empty
\* record and overwritten.
UpsertMerge_Mut(content, path, value) ==
  IF value # Null /\ ParseThrows(value)
  THEN [threw |-> TRUE, why |-> "value", text |-> Garbage]
  ELSE LET R == IF content = NoFile \/ ParseThrows(content)
                THEN EmptyRecord ELSE JSONparse(content)
       IN [threw |-> FALSE, why |-> "",
           text |-> JSONstringify(UpsertRecord(R, path, value))]

\* upsertFoldStateForFile from the content it found (NoFile: no file, and
\* foldStates stays {}) to the content it writes.  JSON.parse of the content
\* or of the value may throw: why names the first that does.
UpsertMerge(content, path, value) ==
  IF content # NoFile /\ ParseThrows(content)
  THEN [threw |-> TRUE, why |-> "decode", text |-> Garbage]
  ELSE IF value # Null /\ ParseThrows(value)
  THEN [threw |-> TRUE, why |-> "value", text |-> Garbage]
  ELSE LET R == IF content = NoFile THEN EmptyRecord ELSE JSONparse(content)
       IN [threw |-> FALSE, why |-> "",
           text |-> JSONstringify(UpsertRecord(R, path, value))]

\* A faulty export: one value that does not parse aborts the whole loop.
ExportRecord_Mut(st) ==
  LET fold == {k \in Keys : StartsWithFoldPrefix(k) /\ st[k] # Null}
  IN IF \E k \in fold : ParseThrows(st[k])
     THEN EmptyRecord
     ELSE [p \in {PathOfKey(k) : k \in fold} |-> JSONparse(st[FoldKey(p)])]

\* exportFoldsToFile, the loop over localStorage: the fold-prefixed keys
\* whose value is non-empty and parses, each with its parsed value.  (The
\* empty string is not among the values of the model.)
ExportRecord(st) ==
  LET kept == {k \in Keys : /\ StartsWithFoldPrefix(k)
                            /\ st[k] # Null
                            /\ ~ParseThrows(st[k])}
  IN [p \in {PathOfKey(k) : k \in kept} |-> JSONparse(st[FoldKey(p)])]

\* A faulty import: the loop ends after its first entry.
ImportLoop_Mut(w, R, order) ==
  IF order = <<>> THEN w
  ELSE SetItem(w, FoldKey(Head(order)), JSONstringify(R[Head(order)]),
               "import")

\* importFoldsFromFile, the loop over Object.entries(foldStates), in the
\* order `order` of the entries.
RECURSIVE ImportLoop(_, _, _)
ImportLoop(w, R, order) ==
  IF order = <<>> THEN w
  ELSE ImportLoop(SetItem(w, FoldKey(Head(order)),
                          JSONstringify(R[Head(order)]), "import"),
                  R, Tail(order))

\* The orders in which the entries of a record can stand in the file.
Orders(S) == {o \in UNION {[1..n -> S] : n \in {Cardinality(S)}} :
                \A i, j \in DOMAIN o : i # j => o[i] # o[j]}

\* new Notice(...) of the callers, after the operation has returned.
CallerNotice(caller) ==
  CASE caller = "ribbon"         -> <<"Fold states synced to file">>
    [] caller = "export-command" -> <<"Fold states exported to file">>
    [] caller = "export-button"  -> <<"Fold states exported">>
    [] caller = "import-command" -> <<"Fold states imported from file">>
    [] caller = "import-button"  -> <<"Fold states imported">>
    [] OTHER                     -> <<>>

\* The callers of the model are the two commands; the ribbon icon and the
\* buttons of the settings tab make the same calls and show another text.
ExportCallers == {"export-command"}
ImportCallers == {"import-command"}

\* What the host shows when it opens a document: the folds it finds in
\* localStorage (foldManager.load).
HostLoadFolds(p) ==
  IF /\ store[FoldKey(p)] # Null /\ ~ParseThrows(store[FoldKey(p)])
     /\ JSONparse(store[FoldKey(p)]) \in Descs
  THEN JSONparse(store[FoldKey(p)]) ELSE NoFolds

Replace(t, u) == tasks' = (tasks \ {t}) \cup {u}
Finish(t)     == tasks' = tasks \ {t}
Room          == Cardinality(tasks) < MaxTasks

(***************************************************************************)
(* Initial states: before onload.  localStorage may hold fold state of an  *)
(* earlier session, the durable file may exist (written by an earlier      *)
(* session or brought by the vault's sync from another device).            *)
(***************************************************************************)
StoreOf(a, b, o) ==
  [k \in Keys |-> IF k = FoldKey("a.md") THEN a
                  ELSE IF k = FoldKey("b.md") THEN b ELSE o]

\* Another text that no JSON.parse is ever applied to.
OtherValue == Garbage

InitScenarios ==
  { \* a first installation
    [store |-> StoreOf(Null, Null, Null), file |-> NoFile],
    \* a new device: the file has come with the vault, localStorage is empty
    [store |-> StoreOf(Null, Null, Null),
     file  |-> JsonText([p \in Paths |-> IF p = "a.md" THEN Desc2 ELSE Desc1],
                        1)],
    \* a later session on the same device
    [store |-> StoreOf(JSONstringify(Desc1), Null, OtherValue),
     file  |-> JsonText([p \in {"a.md"} |-> Desc1], 0)],
    \* a damaged file and a damaged entry
    [store |-> StoreOf(Garbage, JSONstringify(Desc2), Null),
     file  |-> Garbage] }

Init ==
  /\ rev \in Revisions
  /\ phase = "constructed"
  /\ enableSync \in BOOLEAN        \* loadData(), DEFAULT_SETTINGS: true
  /\ intercepted = FALSE
  /\ originalSetItem = "none"
  /\ \E sc \in InitScenarios : store = sc.store /\ file = sc.file
  /\ debounceTimer = NullTimer
  /\ timers = {}
  /\ nextTimer = 1
  /\ tasks = {}
  /\ views = [p \in Paths |-> Closed]
  /\ active = NoPath
  /\ nEvents = 0
  /\ lastArmed = NullTimer
  /\ lastChange = [path |-> NoPath, cause |-> "", events |-> 0]
  /\ burstWrites = <<>>
  /\ last = [n |-> 0, op |-> "none", caller |-> "", outcome |-> "",
             notices |-> <<>>]

schedVars == <<debounceTimer, timers, nextTimer, lastArmed, lastChange,
               burstWrites>>
hostVars  == <<views, active>>

(***************************************************************************)
(* exportFoldsToFile.                                                      *)
(***************************************************************************)
\* The guards at the head of the three operations.
ExportSkips == ~enableSync
\* A faulty upsert: the guard is missing.
UpsertSkips_Mut == FALSE
UpsertSkips == ~enableSync
ApplySkips  == ~enableSync

\* exportFoldsToFile() up to its await of adapter.write; `others` are the
\* tasks that stay suspended.
ExportCall(caller, others) ==
  IF ExportSkips
  THEN /\ tasks' = others
       /\ last' = Last("export", caller, "disabled", CallerNotice(caller))
  ELSE /\ tasks' = others \cup
            {Task("export", "write", caller, NoPath, Null,
                  JSONstringify(ExportRecord(store)), NullTimer, "", 0,
                  Unread, enableSync)}
       /\ UNCHANGED last

\* adapter.write of exportFoldsToFile resolves or rejects; the caller goes on.
ExportWriteDone(t, ok) ==
  /\ t \in tasks /\ t.op = "export" /\ t.pc = "write"
  /\ Finish(t)
  /\ IF ok
     THEN /\ file' = t.buf
          /\ last' = Last("export", t.caller, "written",
                          CallerNotice(t.caller))
          /\ UNCHANGED nEvents
     ELSE /\ nEvents < MaxEvents
          /\ nEvents' = nEvents + 1
          /\ last' = Last("export", t.caller, "failed-write",
                          <<"Failed to export fold states">>
                          \o CallerNotice(t.caller))
          /\ UNCHANGED file
  /\ phase' = IF t.caller = "onload" /\ phase = "loading" THEN "loaded"
              ELSE phase
  /\ UNCHANGED <<rev, enableSync, intercepted, originalSetItem, store,
                 schedVars, hostVars>>

\* The ribbon icon, the export command and the Export button.
ExportCommand(caller) ==
  /\ rev = "main"
  /\ phase \in {"loading", "loaded"}
  /\ nEvents < MaxEvents
  /\ nEvents' = nEvents + 1
  /\ ExportSkips \/ Room
  /\ ExportCall(caller, tasks)
  /\ UNCHANGED <<rev, phase, enableSync, intercepted, originalSetItem, store,
                 file, schedVars,
                 hostVars>>

(***************************************************************************)
(* onload, onunload, the settings toggle.                                  *)
(***************************************************************************)
\* onload() up to its await of the initial export (or to its end).
OnLoad ==
  /\ phase = "constructed"
  /\ LET icp == IF enableSync THEN InterceptLocalStorage(Interception)
                ELSE Interception
     IN intercepted' = icp.intercepted /\ originalSetItem' = icp.original
  /\ IF enableSync
     THEN /\ ExportCall("onload", tasks)
          /\ phase' = "loading"
     ELSE /\ phase' = "loaded"
          /\ UNCHANGED <<tasks, last>>
  /\ UNCHANGED <<rev, enableSync, store, file, schedVars, hostVars, nEvents>>

\* onunload(): restoreLocalStorage(), then clearTimeout of the handle held.
Unload ==
  /\ phase = "loaded"
  /\ nEvents < MaxEvents
  /\ nEvents' = nEvents + 1
  /\ phase' = "unloaded"
  /\ LET icp == RestoreLocalStorage(Interception)
     IN intercepted' = icp.intercepted /\ originalSetItem' = icp.original
  /\ timers' = IF debounceTimer # NullTimer
               THEN ClearTimeout(timers, debounceTimer) ELSE timers
  /\ UNCHANGED <<rev, enableSync, store, file, debounceTimer, nextTimer, tasks,
                 hostVars, lastArmed, lastChange, burstWrites,
                 last>>

\* The toggle's onChange(value) up to its await of saveSettings().  The
\* toggle shows settings.enableSync, a click hands over the opposite.  A
\* second click can come while the first awaits its save, and the two saves
\* resolve in either order.
ToggleSync ==
  /\ rev = "main"
  /\ phase \in {"loading", "loaded"}
  /\ nEvents < MaxEvents
  /\ nEvents' = nEvents + 1
  /\ Room
  /\ LET caller == IF enableSync THEN "toggle-off" ELSE "toggle-on"
     IN /\ \A t \in tasks : t.op = "toggle" => t.caller # caller
        /\ tasks' = tasks \cup
             {Task("toggle", "save", caller, NoPath, Null, Null, NullTimer,
                   "", 0, Unread, enableSync)}
  /\ enableSync' = ~enableSync
  /\ UNCHANGED <<rev, phase, intercepted, originalSetItem, store, file,
                 schedVars, hostVars, last>>

\* saveSettings() has resolved: interceptLocalStorage() and the export, or
\* restoreLocalStorage().
ToggleSaveDone(t) ==
  /\ t \in tasks /\ t.op = "toggle" /\ t.pc = "save"
  /\ IF t.caller = "toggle-on"
     THEN /\ LET icp == InterceptLocalStorage(Interception)
             IN intercepted' = icp.intercepted /\ originalSetItem' = icp.original
          /\ ExportCall("toggle", tasks \ {t})
     ELSE /\ LET icp == RestoreLocalStorage(Interception)
             IN intercepted' = icp.intercepted /\ originalSetItem' = icp.original
          /\ Finish(t)
          /\ UNCHANGED last
  /\ UNCHANGED <<rev, phase, enableSync, store, file, schedVars, hostVars,
                 nEvents>>

(***************************************************************************)
(* The host writes and deletes keys of localStorage.                       *)
(***************************************************************************)
HostSetItem(key, value) ==
  /\ nEvents < MaxEvents
  /\ nEvents' = nEvents + 1
  /\ Commit(SetItem(World, key, value, "host"))
  /\ UNCHANGED <<rev, phase, enableSync, intercepted, originalSetItem, file,
                 tasks, hostVars, last>>

HostRemoveItem(key) ==
  /\ nEvents < MaxEvents
  /\ nEvents' = nEvents + 1
  /\ Commit(RemoveItem(World, key, "host"))
  /\ UNCHANGED <<rev, phase, enableSync, intercepted, originalSetItem, file,
                 tasks, hostVars, last>>

(***************************************************************************)
(* The debounce timer fires; upsertFoldStateForFile.                       *)
(***************************************************************************)
\* Timers of equal delay fire in the order they were armed.
Oldest(t) == \A u \in timers : t.id <= u.id

\* The upsert has returned (it catches what it throws): the timer callback
\* goes on to `this.debounceTimer = null`.
UpsertReturns(t, outcome, notices) ==
  /\ Finish(t)
  /\ debounceTimer' = NullTimer
  /\ last' = Last("upsert", "timer", outcome, notices)

UpsertFailed == <<"Failed to sync fold state">>

\* The callback of the timer t, up to the first await of the upsert.
TimerFires(t) ==
  /\ t \in timers /\ Oldest(t)
  /\ timers' = timers \ {t}
  /\ IF UpsertSkips
     THEN /\ debounceTimer' = NullTimer
          /\ last' = Last("upsert", "timer", "disabled", <<>>)
          /\ UNCHANGED tasks
     ELSE /\ Room
          /\ tasks' = tasks \cup
               {Task("upsert", "exists", "timer", t.path, t.value, Null, t.id,
                     t.cause, t.burst, Unread, enableSync)}
          /\ UNCHANGED <<debounceTimer, last>>
  /\ UNCHANGED <<rev, phase, enableSync, intercepted, originalSetItem, store,
                 file, nextTimer,
                 hostVars, nEvents, lastArmed, lastChange,
                 burstWrites>>

\* From the content found to the await of adapter.write, or to the catch.
UpsertWrites(t, content) ==
  LET m == UpsertMerge(content, t.path, t.value)
  IN IF m.threw
     THEN UpsertReturns(t, "failed-" \o m.why, UpsertFailed)
     ELSE /\ Replace(t, [t EXCEPT !.pc = "write", !.buf = m.text,
                                  !.read = content])
          /\ UNCHANGED <<debounceTimer, last>>

\* adapter.exists resolves (true or false) or rejects.
UpsertExistsDone(t, ok) ==
  /\ t \in tasks /\ t.op = "upsert" /\ t.pc = "exists"
  /\ IF ~ok
     THEN /\ nEvents < MaxEvents
          /\ nEvents' = nEvents + 1
          /\ UpsertReturns(t, "failed-exists", UpsertFailed)
     ELSE /\ UNCHANGED nEvents
          /\ IF file # NoFile
             THEN /\ Replace(t, [t EXCEPT !.pc = "read"])
                  /\ UNCHANGED <<debounceTimer, last>>
             ELSE UpsertWrites(t, NoFile)
  /\ UNCHANGED <<rev, phase, enableSync, intercepted, originalSetItem, store,
                 file, timers,
                 nextTimer, hostVars, lastArmed, lastChange,
                 burstWrites>>

\* adapter.read resolves or rejects.
UpsertReadDone(t, ok) ==
  /\ t \in tasks /\ t.op = "upsert" /\ t.pc = "read"
  /\ IF ~ok
     THEN /\ nEvents < MaxEvents
          /\ nEvents' = nEvents + 1
          /\ UpsertReturns(t, "failed-read", UpsertFailed)
     ELSE /\ UNCHANGED nEvents
          /\ UpsertWrites(t, file)
  /\ UNCHANGED <<rev, phase, enableSync, intercepted, originalSetItem, store,
                 file, timers,
                 nextTimer, hostVars, lastArmed, lastChange,
                 burstWrites>>

\* adapter.write resolves or rejects.
UpsertWriteDone(t, ok) ==
  /\ t \in tasks /\ t.op = "upsert" /\ t.pc = "write"
  /\ IF ok
     THEN /\ file' = t.buf
          /\ burstWrites' = [burstWrites EXCEPT ![t.burst] = @ + 1]
          /\ UpsertReturns(t, "written", <<>>)
          /\ UNCHANGED nEvents
     ELSE /\ nEvents < MaxEvents
          /\ nEvents' = nEvents + 1
          /\ UpsertReturns(t, "failed-write", UpsertFailed)
          /\ UNCHANGED <<file, burstWrites>>
  /\ UNCHANGED <<rev, phase, enableSync, intercepted, originalSetItem, store,
                 timers, nextTimer,
                 hostVars, lastArmed, lastChange>>

(***************************************************************************)
(* importFoldsFromFile.                                                    *)
(***************************************************************************)
ImportFailed == <<"Failed to import fold states">>

\* A faulty import: the result of exists() is not looked at.
NothingToImport_Mut == FALSE
\* `if (!exists) return` of importFoldsFromFile, on what exists() resolved to.
NothingToImport == file = NoFile

ImportReturns(t, outcome, notices) ==
  /\ Finish(t)
  /\ last' = Last("import", t.caller, outcome,
                  notices \o CallerNotice(t.caller))

\* The import command and the Import button, up to the await of exists.
ImportCommand(caller) ==
  /\ rev = "main"
  /\ phase \in {"loading", "loaded"}
  /\ nEvents < MaxEvents
  /\ nEvents' = nEvents + 1
  /\ Room
  /\ tasks' = tasks \cup
       {Task("import", "exists", caller, NoPath, Null, Null, NullTimer, "", 0,
             Unread, enableSync)}
  /\ UNCHANGED <<rev, phase, enableSync, intercepted, originalSetItem, store,
                 file, schedVars,
                 hostVars, last>>

ImportExistsDone(t, ok) ==
  /\ t \in tasks /\ t.op = "import" /\ t.pc = "exists"
  /\ IF ~ok
     THEN /\ nEvents < MaxEvents
          /\ nEvents' = nEvents + 1
          /\ ImportReturns(t, "failed-exists", ImportFailed)
     ELSE /\ UNCHANGED nEvents
          /\ IF NothingToImport
             THEN ImportReturns(t, "nofile", <<>>)
             ELSE /\ Replace(t, [t EXCEPT !.pc = "read"])
                  /\ UNCHANGED last
  /\ UNCHANGED <<rev, phase, enableSync, intercepted, originalSetItem, store,
                 file, schedVars,
                 hostVars>>

\* adapter.read resolves: parse, clear the flag, write every entry through
\* localStorage.setItem, put the flag back.  All of it is synchronous.
\* failAt = k > 0: the store is full and the k-th setItem throws a
\* QuotaExceededError; the wrapper lets it through to the catch, which does
\* not put the flag back.
ImportReadDone(t, ok) ==
  /\ t \in tasks /\ t.op = "import" /\ t.pc = "read"
  /\ IF ~ok
     THEN /\ nEvents < MaxEvents
          /\ nEvents' = nEvents + 1
          /\ ImportReturns(t, "failed-read", ImportFailed)
          /\ UNCHANGED <<enableSync, store, schedVars>>
     ELSE IF ParseThrows(file)
     THEN /\ ImportReturns(t, "failed-decode", ImportFailed)
          /\ UNCHANGED <<enableSync, store, schedVars, nEvents>>
     ELSE LET foldStates  == JSONparse(file)
              syncEnabled == enableSync
          IN \E order \in Orders(DOMAIN foldStates) :
             \E failAt \in 0..Len(order) :
               LET done == IF failAt = 0 THEN order
                           ELSE SubSeq(order, 1, failAt - 1)
                   w0   == ImportLoop(World, foldStates, done)
                   w    == IF failAt = 0 THEN w0
                           ELSE [w0 EXCEPT !.threw = TRUE]
               IN /\ IF failAt = 0 THEN UNCHANGED nEvents
                     ELSE /\ nEvents < MaxEvents
                          /\ nEvents' = nEvents + 1
                  /\ Commit(w)
                  /\ IF w.threw
                     THEN /\ enableSync' = FALSE
                          /\ ImportReturns(t, "failed-store", ImportFailed)
                     ELSE /\ enableSync' = syncEnabled
                          /\ ImportReturns(t, "imported", <<>>)
  /\ UNCHANGED <<rev, phase, intercepted, originalSetItem, file, hostVars>>

(***************************************************************************)
(* The host opens and closes documents; applyFoldStateForFile.             *)
(***************************************************************************)
\* A faulty apply: the result of exists() is not looked at.
NothingToApply_Mut == FALSE
\* `if (!exists) return` of applyFoldStateForFile.
NothingToApply == file = NoFile

ApplyReturns(t, outcome) ==
  /\ Finish(t)
  /\ last' = Last("apply", t.caller, outcome, <<>>)

\* The view that takes the folds of `path` in the live-view branch, named by
\* the document it shows: leaves[0].view, a view that shows `path`, in
\* "main"; getActiveViewOfType(MarkdownView), the active view, in "part_000".
ApplyTarget(path) == IF rev = "main" THEN path ELSE active

\* The document p becomes the active one (a view opens on it when none shows
\* it) and the handler that onload has registered runs.  "main": file-open
\* runs applyFoldStateForFile(p) up to its await of exists.  "part_000":
\* active-leaf-change awaits a timer of 100 ms first.
OpenFile(p) ==
  /\ nEvents < MaxEvents
  /\ nEvents' = nEvents + 1
  /\ active # p
  /\ active' = p
  /\ views' = [views EXCEPT ![p] = IF @ = Closed THEN HostLoadFolds(p) ELSE @]
  /\ IF phase # "loaded"
     THEN UNCHANGED <<tasks, last>>
     ELSE IF rev = "part_000"
     THEN /\ Room
          /\ tasks' = tasks \cup
               {Task("apply", "delay", "active-leaf-change", p, Null, Null,
                     NullTimer, "", 0, Unread, enableSync)}
          /\ UNCHANGED last
     ELSE IF ApplySkips
     THEN /\ last' = Last("apply", "file-open", "disabled", <<>>)
          /\ UNCHANGED tasks
     ELSE /\ Room
          /\ tasks' = tasks \cup
               {Task("apply", "exists", "file-open", p, Null, Null, NullTimer,
                     "", 0, Unread, enableSync)}
          /\ UNCHANGED last
  /\ UNCHANGED <<rev, phase, enableSync, intercepted, originalSetItem, store,
                 file, schedVars>>

\* The active view is closed: file-open(null), which the handler only logs.
CloseFile ==
  /\ nEvents < MaxEvents
  /\ nEvents' = nEvents + 1
  /\ active # NoPath
  /\ active' = NoPath
  /\ views' = [views EXCEPT ![active] = Closed]
  /\ UNCHANGED <<rev, phase, enableSync, intercepted, originalSetItem, store,
                 file, schedVars, tasks, last>>

\* "part_000": the 100 ms have passed; leaf.view.file.path is read and
\* applyFoldStateForFile runs up to its await of exists.  When the leaf has
\* been closed meanwhile, leaf.view.file may be null: reading its path then
\* throws outside every try (gone = TRUE), or the path is still there.
ApplyDelayDone(t, gone) ==
  /\ t \in tasks /\ t.op = "apply" /\ t.pc = "delay"
  /\ gone => views[t.path] = Closed
  /\ IF gone
     THEN ApplyReturns(t, "failed-path")
     ELSE IF ApplySkips
     THEN ApplyReturns(t, "disabled")
     ELSE /\ Replace(t, [t EXCEPT !.pc = "exists",
                                  !.enabledAtCall = enableSync])
          /\ UNCHANGED last
  /\ UNCHANGED <<rev, phase, enableSync, intercepted, originalSetItem, store,
                 file, schedVars, hostVars, nEvents>>

ApplyExistsDone(t, ok) ==
  /\ t \in tasks /\ t.op = "apply" /\ t.pc = "exists"
  /\ IF ~ok
     THEN /\ nEvents < MaxEvents
          /\ nEvents' = nEvents + 1
          /\ ApplyReturns(t, "failed-exists")
     ELSE /\ UNCHANGED nEvents
          /\ IF NothingToApply
             THEN ApplyReturns(t, "nofile")
             ELSE /\ Replace(t, [t EXCEPT !.pc = "read"])
                  /\ UNCHANGED last
  /\ UNCHANGED <<rev, phase, enableSync, intercepted, originalSetItem, store,
                 file, schedVars, hostVars>>

\* view.onMarkdownFold() and foldManager.save(file, folds): the host records
\* the folds under the document's key of localStorage.
HostSaveFolds(w, path, folds) ==
  SetItem(w, FoldKey(path), JSONstringify(folds), "apply")

\* A faulty apply: it toggles the folds of the entry in the view, so that a
\* view that shows them already loses them.
ApplyToLiveView_Mut(path) ==
  LET folds  == JSONparse(file)[path]
      target == ApplyTarget(path)
      shown  == IF views[target] = folds THEN NoFolds ELSE folds
  IN [views |-> [views EXCEPT ![target] = shown],
      world |-> IF shown = NoFolds
                THEN RemoveItem(World, FoldKey(target), "apply")
                ELSE HostSaveFolds(World, target, shown)]

\* The live-view branch of applyFoldStateForFile(path): applyFoldInfo of the
\* record's entry on the target view, then that view's onMarkdownFold().
ApplyToLiveView(path) ==
  LET folds  == JSONparse(file)[path]
      target == ApplyTarget(path)
  IN [views |-> [views EXCEPT ![target] = folds],
      world |-> HostSaveFolds(World, target, folds)]

\* adapter.read resolves: parse, look the document up, apply its folds to
\* the view that shows it or hand them to the host's fold storage.  A store
\* write that throws ends in the catch, after the view has been changed.
ApplyReadDone(t, ok) ==
  /\ t \in tasks /\ t.op = "apply" /\ t.pc = "read"
  /\ LET foldStates == JSONparse(file)
         live       == ApplyToLiveView(t.path)
         saved      == HostSaveFolds(World, t.path, foldStates[t.path])
     IN IF ~ok
        THEN /\ nEvents < MaxEvents
             /\ nEvents' = nEvents + 1
             /\ ApplyReturns(t, "failed-read")
             /\ UNCHANGED <<store, schedVars, views>>
        ELSE /\ UNCHANGED nEvents
             /\ IF ParseThrows(file)
                THEN /\ ApplyReturns(t, "failed-decode")
                     /\ UNCHANGED <<store, schedVars, views>>
                ELSE IF t.path \notin DOMAIN foldStates
                THEN /\ ApplyReturns(t, "noentry")
                     /\ UNCHANGED <<store, schedVars, views>>
                ELSE IF t.path \notin VaultFiles
                THEN /\ ApplyReturns(t, "notfile")
                     /\ UNCHANGED <<store, schedVars, views>>
                ELSE IF views[t.path] # Closed
                THEN IF active = NoPath
                     \* getActiveViewOfType() is null: t.currentMode throws
                     THEN /\ ApplyReturns(t, "failed-view")
                          /\ UNCHANGED <<store, schedVars, views>>
                     ELSE /\ views' = live.views
                          /\ Commit(live.world)
                          /\ ApplyReturns(t, IF live.world.threw
                                             THEN "failed-notify"
                                             ELSE "applied-view")
                ELSE /\ Commit(saved)
                     /\ ApplyReturns(t, IF saved.threw THEN "failed-save"
                                        ELSE "applied-storage")
                     /\ UNCHANGED views
  /\ UNCHANGED <<rev, phase, enableSync, intercepted, originalSetItem, file,
                 active>>

(***************************************************************************)
(* The specification.                                                      *)
(***************************************************************************)
Next ==
  \/ OnLoad
  \/ Unload
  \/ ToggleSync
  \/ \E t \in tasks : ToggleSaveDone(t)
  \/ \E p \in Paths, v \in StoreValues : HostSetItem(FoldKey(p), v)
  \/ HostSetItem(OtherKey, OtherValue)
  \/ \E p \in Paths : HostRemoveItem(FoldKey(p))
  \/ \E t \in timers : TimerFires(t)
  \/ \E t \in tasks, ok \in BOOLEAN : UpsertExistsDone(t, ok)
  \/ \E t \in tasks, ok \in BOOLEAN : UpsertReadDone(t, ok)
  \/ \E t \in tasks, ok \in BOOLEAN : UpsertWriteDone(t, ok)
  \/ \E c \in ExportCallers : ExportCommand(c)
  \/ \E t \in tasks, ok \in BOOLEAN : ExportWriteDone(t, ok)
  \/ \E c \in ImportCallers : ImportCommand(c)
  \/ \E t \in tasks, ok \in BOOLEAN : ImportExistsDone(t, ok)
  \/ \E t \in tasks, ok \in BOOLEAN : ImportReadDone(t, ok)
  \/ \E p \in Paths : OpenFile(p)
  \/ CloseFile
  \/ \E t \in tasks, gone \in BOOLEAN : ApplyDelayDone(t, gone)
  \/ \E t \in tasks, ok \in BOOLEAN : ApplyExistsDone(t, ok)
  \/ \E t \in tasks, ok \in BOOLEAN : ApplyReadDone(t, ok)

Spec == Init /\ [][Next]_vars

(***************************************************************************)
(* Properties.                                                             *)
(***************************************************************************)
\* The tasks that this step has resumed (each has returned or has moved to
\* its next await) and the requests that this step has issued; the 100 ms
\* wait of the active-leaf-change handler is a timer, not a request.
Resumed == tasks \ tasks'
Issued  == {t \in tasks' \ tasks : t.pc # "delay"}
\* No I/O request has been rejected in this step.
NoFault == nEvents' = nEvents

Parses(text) == text.kind = "json"
RecordOfFile(text) == IF text = NoFile THEN EmptyRecord ELSE text.val

\* C1: a burst of fold changes, each less than 500 ms after the one before,
\* results in one durable write: no burst is ever written twice.
C1_OneWritePerBurst ==
  \A b \in DOMAIN burstWrites : burstWrites[b] <= 1

\* C2: the store writes of importFoldsFromFile never arm a debounce timer
\* and never lead to an upsert of the durable file.
C2_NoImportFeedback ==
  /\ \A t \in timers : t.cause # "import"
  /\ \A t \in tasks : t.op = "upsert" => t.cause # "import"

\* C3: whenever onunload runs, every debounce timer pending at that moment
\* is cancelled.
C3_UnloadCancelsTimers ==
  [][phase = "loaded" /\ phase' = "unloaded" => timers' = {}]_vars

\* C4: the export that onload makes never removes or changes an entry of an
\* existing durable record whose path has no fold key in localStorage.
C4_LoadKeepsRecord ==
  [][\A t \in Resumed :
       (t.op = "export" /\ t.caller = "onload" /\ Parses(file)) =>
         \A p \in DOMAIN file.val :
           store[FoldKey(p)] = Null =>
             /\ Parses(file')
             /\ p \in DOMAIN file'.val
             /\ file'.val[p] = file.val[p]]_vars

\* C5: an upsert of (path, value) that runs alone on the record R and meets
\* no I/O failure writes a record that maps path to the parsed value (has
\* no entry for path when value is null) and agrees with R on every other
\* path.
C5_UpsertCorrect ==
  [][\A t \in Resumed :
       (t.op = "upsert" /\ t.pc = "write" /\ NoFault /\ t.read = file) =>
         LET R  == RecordOfFile(file)
             R2 == file'.val
         IN /\ Parses(file')
            /\ t.value # Null =>
                 t.path \in DOMAIN R2 /\ R2[t.path] = t.value.val
            /\ t.value = Null => t.path \notin DOMAIN R2
            /\ \A q \in Paths \ {t.path} :
                 /\ q \in DOMAIN R2 <=> q \in DOMAIN R
                 /\ q \in DOMAIN R => R2[q] = R[q]]_vars

\* C5, its case: an upsert has been written into a record that held another
\* document's entry, which is still there.
C5_Witness ==
  /\ last.op = "upsert" /\ last.outcome = "written"
  /\ tasks = {}
  /\ file = JSONstringify([p \in Paths |->
                             IF p = "a.md" THEN Desc1 ELSE Desc2])

\* C6: the record that exportFoldsToFile writes has exactly the paths of the
\* fold keys whose value parses, each with its parsed value, whatever the
\* file held and whatever the other keys hold; a value that does not parse
\* only leaves its own path out.
C6_ExportCorrect ==
  [][/\ \A t \in Issued :
          t.op = "export" =>
            /\ Parses(t.buf) /\ t.buf.ws = 0
            /\ DOMAIN t.buf.val =
                 {p \in Paths : Parses(store[FoldKey(p)])}
            /\ \A p \in DOMAIN t.buf.val :
                 t.buf.val[p] = store[FoldKey(p)].val
     /\ \A t \in Resumed :
          (t.op = "export" /\ NoFault) => file' = t.buf]_vars

\* C6, its case: an export has left out the one entry that does not parse
\* and has written the other over a file that held something else.
C6_Witness ==
  /\ last.op = "export" /\ last.outcome = "written"
  /\ store[FoldKey("a.md")] = Garbage
  /\ store[FoldKey("b.md")] = JSONstringify(Desc2)
  /\ file = JSONstringify([p \in {"b.md"} |-> Desc2])

\* C7: when the file decodes to R, importFoldsFromFile leaves every path p
\* of R under its fold key with the compact encoding of R[p], and every
\* other key as it was.
C7_ImportCorrect ==
  [][\A t \in Resumed :
       (t.op = "import" /\ t.pc = "read" /\ NoFault /\ Parses(file)) =>
         /\ \A p \in DOMAIN file.val :
              store'[FoldKey(p)] = JsonText(file.val[p], 0)
         /\ \A k \in Keys :
              k \notin {FoldKey(p) : p \in DOMAIN file.val} =>
                store'[k] = store[k]]_vars

\* C7, its case: a file of two entries, written with whitespace, has been
\* imported beside a key that is none of its own.
C7_Witness ==
  /\ last.op = "import" /\ last.outcome = "imported"
  /\ store[FoldKey("a.md")] = JSONstringify(Desc2)
  /\ store[FoldKey("b.md")] = JSONstringify(Desc1)
  /\ store[OtherKey] = OtherValue
  /\ file.kind = "json" /\ file.ws = 1

GuardedOps == {"export", "upsert", "apply"}

\* C8 as stated: in no state where settings.enableSync is false does an
\* export, an upsert or an apply issue an exists, a read or a write.
C8_DisabledNoIO ==
  [][~enableSync => \A t \in Issued : t.op \notin GuardedOps]_vars

\* C8 as amended: an export, an upsert or an apply that is called while
\* settings.enableSync is false issues no I/O request and changes neither
\* the store, the file nor the folds of a view; this includes the upsert of
\* a timer that was armed while sync was enabled.
C8_DisabledCallNoOp ==
  [][/\ \A t \in Issued : t.op \in GuardedOps => t.enabledAtCall
     /\ (last' # last /\ last'.outcome = "disabled") =>
          /\ Issued = {}
          /\ store' = store /\ file' = file
          /\ \A p \in Paths : views[p] # Closed => views'[p] = views[p]]_vars

\* C8, its case: a timer has fired with sync disabled.
C8_Witness ==
  last.op = "upsert" /\ last.outcome = "disabled" /\ ~enableSync

\* C9: when the durable file does not exist, applyFoldStateForFile and
\* importFoldsFromFile return without an error, issue no read and no write,
\* and leave the store, the views and settings.enableSync as they were.
C9_MissingFile ==
  [][\A t \in Resumed :
       (t.op \in {"apply", "import"} /\ t.pc = "exists" /\ NoFault
        /\ file = NoFile) =>
         /\ Issued = {}
         /\ last'.op = t.op /\ last'.outcome = "nofile"
         /\ last'.notices = CallerNotice(t.caller)
         /\ store' = store /\ views' = views /\ file' = file
         /\ enableSync' = enableSync /\ timers' = timers]_vars

\* C9, its case: a document has been opened while the file is missing.
C9_Witness ==
  last.op = "apply" /\ last.outcome = "nofile" /\ file = NoFile

\* The upsert t fails in this step before its write: exists or read is
\* rejected, the content read does not decode, or the value does not parse.
UpsertFailsEarly(t) ==
  /\ t.op = "upsert" /\ t.pc \in {"exists", "read"}
  /\ \/ ~NoFault
     \/ t.pc = "read" /\ ~Parses(file)
     \/ /\ t.pc = "read" \/ file = NoFile
        /\ t.value # Null /\ ~Parses(t.value)

\* C10: an upsert that fails before its write issues no write and leaves the
\* file as it is; the failure is caught, so the timer callback goes on to
\* reset the handle and the user gets the failure notice.
C10_FailedUpsert ==
  [][\A t \in Resumed :
       UpsertFailsEarly(t) =>
         /\ Issued = {}
         /\ file' = file
         /\ debounceTimer' = NullTimer
         /\ last'.op = "upsert" /\ last'.notices = UpsertFailed]_vars

\* C10, its case: an upsert has met a file that does not decode.
C10_Witness ==
  last.op = "upsert" /\ last.outcome = "failed-decode" /\ file = Garbage

\* The outcomes of an operation that has met a read, a decode or a write
\* failure, and the texts of the failure notices.
ReadDecodeWriteFailures == {"failed-read", "failed-decode", "failed-write"}
FailureNotices == {UpsertFailed[1], ImportFailed[1]}

\* C11: an upsert, an import or an apply that meets a read, decode or write
\* failure shows exactly one notice, a failure notice, and no success
\* notice.
C11_OneFailureNotice ==
  (last.op \in {"upsert", "import", "apply"}
   /\ last.outcome \in ReadDecodeWriteFailures) =>
     /\ Len(last.notices) = 1
     /\ last.notices[1] \in FailureNotices

\* C12: no import, export, upsert or apply changes settings.enableSync,
\* whatever way it ends.
C12_SettingsKept ==
  [][\A t \in Resumed :
       t.op \in {"import", "export", "upsert", "apply"} =>
         enableSync' = enableSync]_vars

\* The file is absent, or it is a JSON object whose values are all
\* FoldedProperties.
ShapeOK(f) ==
  \/ f = NoFile
  \/ /\ Parses(f)
     /\ \A p \in DOMAIN f.val : f.val[p] \in Descs

\* C13: a durable file that is absent or well formed stays so, whatever
\* exports and upserts are made: a value of another shape is never written
\* into it.
C13_FileShape ==
  [][ShapeOK(file) => ShapeOK(file')]_vars

\* The call localStorage.setItem(key, value), or removeItem(key) when value is
\* Null, made in the current state.
StoreCall(key, value) ==
  IF value = Null THEN RemoveItem(World, key, "host")
  ELSE SetItem(World, key, value, "host")

\* C14: while a wrapper is installed, every set and delete performs the
\* original operation; for a key outside the fold namespace it does nothing
\* else, for a fold key it notifies the scheduler once, with the path and
\* the value.
C14_Transparent ==
  intercepted =>
    \A key \in Keys, value \in StoreValues \cup {Null} :
      LET w == StoreCall(key, value)
      IN /\ ~w.threw
         /\ w.store = [store EXCEPT ![key] = value]
         /\ IF StartsWithFoldPrefix(key)
            THEN /\ w.next = nextTimer + 1
                 /\ w.dt = nextTimer
                 /\ \E t \in w.timers :
                      /\ t.id = nextTimer
                      /\ t.path = PathOfKey(key) /\ t.value = value
                 /\ w.timers \ {t \in w.timers : t.id = nextTimer}
                      \subseteq timers
            ELSE /\ w.timers = timers /\ w.dt = debounceTimer
                 /\ w.next = nextTimer

\* restoreLocalStorage() runs in this step: in onunload, or in the toggle's
\* handler when sync has been turned off.
RestoreRuns ==
  \/ phase = "loaded" /\ phase' = "unloaded"
  \/ \E t \in Resumed : t.op = "toggle" /\ t.caller = "toggle-off"

\* C15: after restoreLocalStorage the store's operations are the original
\* ones again; restoring again, or without an installation, changes
\* nothing; installing after that gives a wrapper that notifies once.
C15_InstallUninstall ==
  [][RestoreRuns =>
       LET cur == [intercepted |-> intercepted', original |-> originalSetItem']
       IN /\ ~intercepted'
          /\ RestoreLocalStorage(cur) = cur
          /\ InterceptLocalStorage(cur) =
               [intercepted |-> TRUE, original |-> "native"]]_vars

\* The apply t returns in this step with the outcome `o`.
ApplyEnds(t, o) ==
  /\ t.op = "apply" /\ t.pc = "read"
  /\ last' # last /\ last'.op = "apply" /\ last'.outcome = o

\* C16: in the live-view branch the folds of the record's entry for P go to
\* a view that shows P, and it is that view whose notification records them
\* under P's key; no other view and no other key is touched.
C16_RightView ==
  [][\A t \in Resumed :
       ApplyEnds(t, "applied-view") =>
         /\ views'[t.path] = file.val[t.path]
         /\ store'[FoldKey(t.path)] = JSONstringify(file.val[t.path])
         /\ \A q \in Paths \ {t.path} :
              /\ views'[q] = views[q]
              /\ store'[FoldKey(q)] = store[FoldKey(q)]]_vars

\* The apply t, resumed in this step, meets one of the conditions of Skip:
\* sync is disabled when it is called, the file is missing, exists or read
\* is rejected, the content does not decode, the record has no entry.
ApplyMustSkip(t) ==
  /\ t.op = "apply"
  /\ \/ t.pc = "delay" /\ ~enableSync
     \/ t.pc \in {"exists", "read"} /\ ~NoFault
     \/ t.pc = "exists" /\ file = NoFile
     \/ t.pc = "read" /\ ~Parses(file)
     \/ t.pc = "read" /\ Parses(file) /\ t.path \notin DOMAIN file.val

\* ("failed-path": the handler has ended before it could call the apply.)
SkipOutcomes == {"disabled", "nofile", "failed-exists", "failed-read",
                 "failed-decode", "noentry", "failed-path"}
LiveOutcomes == {"applied-view", "failed-view", "failed-notify"}
StorageOutcomes == {"applied-storage", "failed-save"}

\* C17: an apply moves forward only (delay, exists, read, return); under a
\* condition of Skip it returns at once and has changed neither the store,
\* a view, the file nor a timer; otherwise it ends in the live-view branch
\* when a view shows the document and in the storage branch when none does.
C17_ApplyStateMachine ==
  [][/\ \A t \in Resumed : t.op = "apply" =>
          /\ \A u \in Issued :
               /\ u.op = "apply" /\ u.path = t.path
               /\ <<t.pc, u.pc>> \in {<<"delay", "exists">>,
                                      <<"exists", "read">>}
          /\ ApplyMustSkip(t) =>
               /\ Issued = {}
               /\ last' # last /\ last'.op = "apply"
               /\ last'.outcome \in SkipOutcomes
               /\ store' = store /\ views' = views /\ file' = file
               /\ timers' = timers
          /\ (t.pc = "read" /\ ~ApplyMustSkip(t)) =>
               /\ Issued = {}
               /\ last' # last /\ last'.op = "apply"
               /\ IF views[t.path] # Closed
                  THEN last'.outcome \in LiveOutcomes
                  ELSE last'.outcome \in StorageOutcomes /\ views' = views
     /\ (last' # last /\ last'.op = "apply" /\ last'.outcome = "disabled") =>
          /\ \A u \in Issued : u.op # "apply"
          /\ store' = store /\ file' = file /\ timers' = timers]_vars

\* C17, its case: a document has been opened that the record has no entry
\* for, and another that went to the host's fold storage.
C17_Witness ==
  /\ last.op = "apply" /\ last.outcome = "noentry"
  /\ \E p \in Paths : store[FoldKey(p)] # Null /\ views[p] = Closed
  /\ Parses(file)

\* C18: no store write made by applyFoldStateForFile arms a debounce timer,
\* so no upsert of the durable file ever comes from an apply.
C18_ApplySuppressed ==
  /\ \A t \in timers : t.cause # "apply"
  /\ \A t \in tasks : t.cause # "apply"

\* C20: at most one debounce timer is pending, and this.debounceTimer holds
\* a handle whenever one is.
C20_SingleTimer ==
  /\ Cardinality(timers) <= 1
  /\ timers # {} => debounceTimer # NullTimer

\* What is left to flush: the pending timers in the order they fire, each
\* with its path and its value.
Flushes(T) ==
  {<<Cardinality({y \in T : y.id < x.id}), x.path, x.value>> : x \in T}

C21_NoLostUpdate ==
  [][\A t \in Resumed :
       (t.op = "upsert" /\ t.pc = "write" /\ last'.outcome = "written") =>
         \/ file = t.read
         \/ /\ Parses(file) /\ Parses(file')
            /\ \A q \in DOMAIN file.val \ {t.path} :
                 q \in DOMAIN file'.val /\ file'.val[q] = file.val[q]]_vars

\* C22: when a fold change of one document arrives while the timer armed by
\* the change of another document just before it is still pending, that
\* timer is cancelled: the one flush that follows carries the later path
\* only and the earlier change is not written.
C22_LatestPathOnly ==
  [][\A new \in timers' \ timers :
       \A old \in timers :
         (old.id = lastArmed /\ old.path # new.path) => old \notin timers']_vars

\* No timer is pending and no operation is in flight.
Quiescent == timers = {} /\ tasks = {}

\* Nothing has come from outside since the most recent fold change: no
\* store write or delete, no command, no toggle, no unload, no failed I/O
\* request (the change of the host is an event itself).
Undisturbed ==
  nEvents = lastChange.events + (IF lastChange.cause = "host" THEN 1 ELSE 0)

\* C23: with sync enabled and the wrapper installed, once the system has
\* come to rest after the last fold change without anything else happening,
\* the durable record has for the path of that change what the store has
\* under its key: the decoded value, or no entry when the key was deleted.
\* (The store value is JSON and the file is absent or decodes.)
C23_SettlesToStore ==
  LET P == lastChange.path
      v == store[FoldKey(P)]
  IN (/\ Quiescent /\ Undisturbed /\ P # NoPath
      /\ phase = "loaded" /\ enableSync /\ intercepted /\ ~WrapperRecurses
      /\ v = Null \/ ~ParseThrows(v)
      /\ file = NoFile \/ Parses(file))
     => IF v = Null
        THEN file = NoFile \/ P \notin DOMAIN file.val
        ELSE /\ Parses(file) /\ P \in DOMAIN file.val
             /\ file.val[P] = JSONparse(v)

\* C24: interceptLocalStorage never runs while a wrapper is installed: what
\* this.originalSetItem and this.originalRemoveItem hold is never a wrapper,
\* so that no store write can recurse.
C24_OneWrapperLayer == originalSetItem # "wrapper"

====
